---- MODULE Spec2Model ----
(***************************************************************************)
(* Model of the validation engine of the Manufacturing Data Integration    *)
(* Tool: DataValidator (src/src/data_validator.py) over the schema         *)
(* objects of src/src/xml_parser.py.                                       *)
(*                                                                         *)
(* Field values are a tagged variant: null (NaN/None), str, num, ts (a     *)
(* native timestamp).  Strings are sequences of one-character strings so   *)
(* that float(), str(), re.match() and pd.to_datetime() are computed on    *)
(* the characters.  Numbers are integers; instants are year numbers (the   *)
(* date literals of the model are the four-digit forms "YYYY").            *)
(* Error messages (ValidationError.error_message) are formatted from the   *)
(* other fields of the error and are left out.                             *)
(***************************************************************************)
EXTENDS Integers, Sequences, FiniteSets, TLC

VARIABLES
    field_mappings,      \* DataValidator.field_mappings (list of FieldMapping)
    global_validations,  \* DataValidator.global_validations (list of dict)
    errors,              \* DataValidator.errors
    valid_rows,          \* DataValidator.valid_rows
    invalid_rows,        \* DataValidator.invalid_rows
    _lookup_cache,       \* DataValidator._lookup_cache (its keys; every entry is set())
    df,                  \* the batch passed to validate_dataframe
    pc,                  \* position inside validate_dataframe
    i,                   \* position of the row loop (1-based)
    row_errors,          \* row_errors of the last loop iteration
    applied,             \* the _apply_rule calls made by the last _validate_row
    outcome,             \* how the last validate_dataframe call ended
    valid_df,            \* records returned as valid_df
    invalid_df,          \* records returned as invalid_df
    value,               \* argument of a direct _apply_rule call
    rule,                \* argument of a direct _apply_rule call
    result,              \* what the direct _apply_rule call returned
    history,             \* the ways the finished validate_dataframe calls of this validator ended
    dry_run,             \* args.dry_run of main
    files,               \* the files main has still to process
    etl_pc,              \* position inside run_etl_pipeline
    db_rows,             \* records committed to the target table
    db_errors,           \* errors committed to the error table
    batch_size,          \* etl_config.batch_size
    success_count        \* success_count of process_batch

vars == <<field_mappings, global_validations, errors, valid_rows, invalid_rows,
          _lookup_cache, df, pc, i, row_errors, applied, outcome, valid_df,
          invalid_df, value, rule, result, history, dry_run, files, etl_pc, db_rows,
          db_errors, batch_size, success_count>>

\* the state of main and of the ETL pipeline around the validator
etlvars == <<dry_run, files, etl_pc, db_rows, db_errors, batch_size, success_count>>

(***************************************************************************)
(* Bounds                                                                  *)
(***************************************************************************)
MaxRows == 2
MaxFiles == 1

(***************************************************************************)
(* Values                                                                  *)
(***************************************************************************)
Null == [t |-> "null", s |-> <<>>, n |-> 0]
Text(chars) == [t |-> "str", s |-> chars, n |-> 0]
Num(k) == [t |-> "num", s |-> <<>>, n |-> k]
Ts(y) == [t |-> "ts", s |-> <<>>, n |-> y]

\* pd.isna(value)
IsNa(v) == v.t = "null"

DigitChars == <<"0", "1", "2", "3", "4", "5", "6", "7", "8", "9">>
Digits == {DigitChars[k] : k \in 1..10}
DigitVal(c) == (CHOOSE k \in 1..10 : DigitChars[k] = c) - 1

AllDigits(chars) == \A k \in 1..Len(chars) : chars[k] \in Digits

RECURSIVE DigitsToNat(_)
DigitsToNat(chars) ==
    IF chars = <<>> THEN 0
    ELSE 10 * DigitsToNat(SubSeq(chars, 1, Len(chars) - 1)) + DigitVal(chars[Len(chars)])

RECURSIVE NatToDigits(_)
NatToDigits(k) ==
    IF k < 10 THEN <<DigitChars[k + 1]>>
    ELSE NatToDigits(k \div 10) \o <<DigitChars[(k % 10) + 1]>>

\* str.strip()
RECURSIVE LStrip(_)
LStrip(chars) ==
    IF chars # <<>> /\ Head(chars) = " " THEN LStrip(Tail(chars)) ELSE chars

RECURSIVE RStrip(_)
RStrip(chars) ==
    IF chars # <<>> /\ chars[Len(chars)] = " "
    THEN RStrip(SubSeq(chars, 1, Len(chars) - 1)) ELSE chars

Strip(chars) == RStrip(LStrip(chars))

\* str(value)
PyStr(v) ==
    CASE v.t = "str" -> v.s
      [] v.t = "num" -> IF v.n < 0 THEN <<"-">> \o NatToDigits(-v.n) ELSE NatToDigits(v.n)
      [] v.t = "ts" -> NatToDigits(v.n) \o <<"-", "0", "1", "-", "0", "1", " ", "0", "0", ":",
                                             "0", "0", ":", "0", "0">>
      [] OTHER -> <<"n", "a", "n">>

\* float(value): [ok |-> TRUE, n |-> number] or [ok |-> FALSE] for ValueError/TypeError
Raised == [ok |-> FALSE, n |-> 0]
PyFloat(v) ==
    CASE v.t = "num" -> [ok |-> TRUE, n |-> v.n]
      [] v.t = "str" ->
            LET body == Strip(v.s)
                neg == body # <<>> /\ Head(body) = "-"
                pos == body # <<>> /\ Head(body) = "+"
                mag == IF neg \/ pos THEN Tail(body) ELSE body
            IN  IF mag # <<>> /\ AllDigits(mag)
                THEN [ok |-> TRUE, n |-> IF neg THEN -DigitsToNat(mag) ELSE DigitsToNat(mag)]
                ELSE Raised
      [] OTHER -> Raised

\* pd.to_datetime(text): an instant, NaT (empty text), or an exception
NaT == [ok |-> TRUE, nat |-> TRUE, n |-> 0]
Instant(y) == [ok |-> TRUE, nat |-> FALSE, n |-> y]
DateRaised == [ok |-> FALSE, nat |-> FALSE, n |-> 0]
ToDatetime(chars) ==
    IF chars = <<>> THEN NaT
    ELSE IF Len(chars) = 4 /\ AllDigits(chars) THEN Instant(DigitsToNat(chars))
    ELSE DateRaised

(***************************************************************************)
(* ValidationRule / ValidationError                                        *)
(***************************************************************************)
\* ValidationRule(rule_type, parameters); parameters is the dict of the
\* Validation element's other attributes
ValidationRule(rule_type, parameters) ==
    [rule_type |-> rule_type, parameters |-> parameters]

\* ValidationError(row_index, field_name, field_value, error_type, ...)
ValidationError(idx, field, v, error_type) ==
    [row_index |-> idx, field_name |-> field, field_value |-> v,
     error_type |-> error_type]

\* Parameter values are field values: a number for the bounds of a range rule
\* (converted by get_field_mappings), a str for the bounds of a date_range rule
NoParams == [key \in {} |-> Null]

\* dict.get(key) is not None
Has(parameters, key) == key \in DOMAIN parameters

\* Regular expressions are sequences of atoms: a literal character, \d, ^ and $
Lit(c) == [k |-> "lit", c |-> c]
AnyDigit == [k |-> "digit", c |-> ""]
AtStart == [k |-> "start", c |-> ""]
AtEnd == [k |-> "end", c |-> ""]

\* the pattern matches chars from position pos on
RECURSIVE MatchAt(_, _, _)
MatchAt(pattern, chars, pos) ==
    IF pattern = <<>> THEN TRUE
    ELSE LET atom == Head(pattern)
             rest == Tail(pattern)
         IN  CASE atom.k = "start" -> pos = 1 /\ MatchAt(rest, chars, pos)
               [] atom.k = "end" -> pos = Len(chars) + 1 /\ MatchAt(rest, chars, pos)
               [] atom.k = "digit" ->
                     pos <= Len(chars) /\ chars[pos] \in Digits
                     /\ MatchAt(rest, chars, pos + 1)
               [] OTHER ->
                     pos <= Len(chars) /\ chars[pos] = atom.c
                     /\ MatchAt(rest, chars, pos + 1)

\* re.match(pattern, string): a match anchored at the start of the string only
ReMatch(pattern, chars) == MatchAt(pattern, chars, 1)

\* valid_products of the lookup branch
valid_products ==
    { <<"P", "R", "O", "D", "-", "A", "1">>, <<"P", "R", "O", "D", "-", "B", "2">>,
      <<"P", "R", "O", "D", "-", "C", "3">>, <<"P", "R", "O", "D", "-", "D", "4">> }

\* f"{lookup_table}.{lookup_column}"
CacheKey(parameters) ==
    (IF Has(parameters, "table") THEN parameters.table ELSE "None") \o "."
    \o (IF Has(parameters, "column") THEN parameters.column ELSE "None")

\* dt_val of the date_range branch: pd.to_datetime(value) for a str, else the
\* value itself; cmp tells whether it can be compared with a Timestamp
DtVal(v) ==
    IF v.t = "str" THEN ToDatetime(v.s) @@ [cmp |-> TRUE]
    ELSE [ok |-> TRUE, nat |-> FALSE, n |-> v.n, cmp |-> v.t = "ts"]

\* dt_val < pd.to_datetime(bound) and dt_val > pd.to_datetime(bound):
\* "raise" when the bound does not parse or the operands cannot be compared
DateCompare(dt, bound, below) ==
    LET b == ToDatetime(bound)
    IN  IF ~b.ok \/ ~dt.cmp THEN "raise"
        ELSE IF dt.nat \/ b.nat THEN "false"
        ELSE IF (below /\ dt.n < b.n) \/ (~below /\ dt.n > b.n) THEN "true"
        ELSE "false"

NoError == <<>>

\* NotNullRule reporting under another kind
NotNullRule_other_kind(idx, field, v, p) ==
    IF IsNa(v) \/ Strip(PyStr(v)) = <<>>
    THEN <<ValidationError(idx, field, v, "NULL_VALUE")>>
    ELSE NoError

\* _apply_rule, branch rule_type == 'not_null'
NotNullRule(idx, field, v, p) ==
    IF IsNa(v) \/ Strip(PyStr(v)) = <<>>
    THEN <<ValidationError(idx, field, v, "NOT_NULL")>>
    ELSE NoError

\* RangeRule with exclusive bounds
RangeRule_exclusive(idx, field, v, p) ==
    LET num_val == PyFloat(v) IN
    IF ~num_val.ok THEN <<ValidationError(idx, field, v, "NUMERIC")>>
    ELSE IF Has(p, "min") /\ num_val.n <= p.min.n
         THEN <<ValidationError(idx, field, v, "RANGE")>>
    ELSE IF Has(p, "max") /\ num_val.n >= p.max.n
         THEN <<ValidationError(idx, field, v, "RANGE")>>
    ELSE NoError

\* _apply_rule, branch rule_type == 'range'
RangeRule(idx, field, v, p) ==
    LET num_val == PyFloat(v) IN
    IF ~num_val.ok THEN <<ValidationError(idx, field, v, "NUMERIC")>>
    ELSE IF Has(p, "min") /\ num_val.n < p.min.n
         THEN <<ValidationError(idx, field, v, "RANGE")>>
    ELSE IF Has(p, "max") /\ num_val.n > p.max.n
         THEN <<ValidationError(idx, field, v, "RANGE")>>
    ELSE NoError

\* RegexRule with re.fullmatch: the whole string has to match
RegexRule_fullmatch(idx, field, v, p) ==
    IF Has(p, "pattern") /\ p.pattern # <<>>
       /\ ~ReMatch(p.pattern \o <<AtEnd>>, PyStr(v))
    THEN <<ValidationError(idx, field, v, "REGEX")>>
    ELSE NoError

\* _apply_rule, branch rule_type == 'regex'
RegexRule(idx, field, v, p) ==
    IF Has(p, "pattern") /\ p.pattern # <<>> /\ ~ReMatch(p.pattern, PyStr(v))
    THEN <<ValidationError(idx, field, v, "REGEX")>>
    ELSE NoError

\* _apply_rule, branch rule_type == 'date_range'; any exception of the try
\* block, from the value, from a bound or from the comparison, is DATE_FORMAT
DateRangeRule(idx, field, v, p) ==
    LET dt_val == DtVal(v)
        lo == IF Has(p, "min") /\ p.min.s # <<>>
              THEN DateCompare(dt_val, p.min.s, TRUE) ELSE "false"
        hi == IF Has(p, "max") /\ p.max.s # <<>>
              THEN DateCompare(dt_val, p.max.s, FALSE) ELSE "false"
    IN  IF ~dt_val.ok THEN <<ValidationError(idx, field, v, "DATE_FORMAT")>>
        ELSE IF lo = "raise" THEN <<ValidationError(idx, field, v, "DATE_FORMAT")>>
        ELSE IF lo = "true" THEN <<ValidationError(idx, field, v, "DATE_RANGE")>>
        ELSE IF hi = "raise" THEN <<ValidationError(idx, field, v, "DATE_FORMAT")>>
        ELSE IF hi = "true" THEN <<ValidationError(idx, field, v, "DATE_RANGE")>>
        ELSE NoError

\* _apply_rule, branch rule_type == 'lookup' (its return value)
LookupRule(idx, field, v, p) ==
    IF Has(p, "column") /\ p.column = "ProductCode" /\ PyStr(v) \notin valid_products
    THEN <<ValidationError(idx, field, v, "LOOKUP")>>
    ELSE NoError

\* DataValidator._apply_rule: <<>> for None, else <<error>>
_apply_rule(idx, field, v, r) ==
    CASE r.rule_type = "not_null" -> NotNullRule(idx, field, v, r.parameters)
      [] r.rule_type = "range" -> RangeRule(idx, field, v, r.parameters)
      [] r.rule_type = "regex" -> RegexRule(idx, field, v, r.parameters)
      [] r.rule_type = "date_range" -> DateRangeRule(idx, field, v, r.parameters)
      [] r.rule_type = "lookup" -> LookupRule(idx, field, v, r.parameters)
      [] OTHER -> NoError

\* the lookup branch's write to self._lookup_cache
CacheAfter(cache, r) ==
    IF r.rule_type = "lookup" THEN cache \cup {CacheKey(r.parameters)} ELSE cache

(***************************************************************************)
(* Schema objects and batches                                              *)
(***************************************************************************)
\* FieldMapping; target_field and data_type are carried by the parser but
\* never read by the validator
FieldMapping(source_field, required, validations) ==
    [source_field |-> source_field, required |-> required,
     validations |-> validations]

Range(seq) == {seq[k] : k \in 1..Len(seq)}

\* ','.join(fields)
RECURSIVE Join(_)
Join(fields) ==
    IF fields = <<>> THEN ""
    ELSE IF Len(fields) = 1 THEN fields[1]
    ELSE fields[1] \o "," \o Join(Tail(fields))

\* list.remove(x): drops the first occurrence
RECURSIVE Remove(_, _)
Remove(seq, x) ==
    IF seq = <<>> THEN <<>>
    ELSE IF Head(seq) = x THEN Tail(seq)
    ELSE <<Head(seq)>> \o Remove(Tail(seq), x)

\* A batch: its column names and its rows (a RangeIndex: the row at
\* position k has index k - 1)
Index(d) == {k - 1 : k \in 1..Len(d.rows)}
RowAt(d, idx) == d.rows[idx + 1]

(***************************************************************************)
(* Row validation                                                          *)
(***************************************************************************)
\* RuleErrors stopping at the first failing rule
RECURSIVE RuleErrors_first_only(_, _, _, _)
RuleErrors_first_only(idx, field, v, validations) ==
    IF validations = <<>> THEN <<>>
    ELSE IF _apply_rule(idx, field, v, Head(validations)) # <<>>
         THEN _apply_rule(idx, field, v, Head(validations))
    ELSE RuleErrors_first_only(idx, field, v, Tail(validations))

\* the loop over mapping.validations: the errors of the failing rules, in order
RECURSIVE RuleErrors(_, _, _, _)
RuleErrors(idx, field, v, validations) ==
    IF validations = <<>> THEN <<>>
    ELSE _apply_rule(idx, field, v, Head(validations))
         \o RuleErrors(idx, field, v, Tail(validations))

\* FieldErrors without the continue after REQUIRED_FIELD_MISSING
FieldErrors_no_continue(idx, row, mapping) ==
    LET field_name == mapping.source_field
        v == row[field_name]
    IN  IF mapping.required /\ IsNa(v)
        THEN <<ValidationError(idx, field_name, v, "REQUIRED_FIELD_MISSING")>>
             \o RuleErrors(idx, field_name, v, mapping.validations)
        ELSE IF IsNa(v) /\ ~mapping.required THEN <<>>
        ELSE RuleErrors(idx, field_name, v, mapping.validations)

\* one iteration of the loop over self.field_mappings
FieldErrors(idx, row, mapping) ==
    LET field_name == mapping.source_field
        v == row[field_name]
    IN  IF mapping.required /\ IsNa(v)
        THEN <<ValidationError(idx, field_name, v, "REQUIRED_FIELD_MISSING")>>
        ELSE IF IsNa(v) /\ ~mapping.required THEN <<>>
        ELSE RuleErrors(idx, field_name, v, mapping.validations)

\* the rules one iteration hands to _apply_rule, as <<field, rule>> pairs
FieldApplied(row, mapping) ==
    LET v == row[mapping.source_field]
    IN  IF IsNa(v) THEN <<>>
        ELSE [k \in 1..Len(mapping.validations) |->
                <<mapping.source_field, mapping.validations[k]>>]

\* DataValidator._validate_row
RECURSIVE _validate_row(_, _, _)
_validate_row(idx, row, mappings) ==
    IF mappings = <<>> THEN <<>>
    ELSE FieldErrors(idx, row, Head(mappings))
         \o _validate_row(idx, row, Tail(mappings))

RECURSIVE RowApplied(_, _)
RowApplied(row, mappings) ==
    IF mappings = <<>> THEN <<>>
    ELSE FieldApplied(row, Head(mappings)) \o RowApplied(row, Tail(mappings))

\* self._lookup_cache after the _apply_rule calls of a row
RECURSIVE CacheAfterAll(_, _)
CacheAfterAll(cache, calls) ==
    IF calls = <<>> THEN cache
    ELSE CacheAfterAll(CacheAfter(cache, Head(calls)[2]), Tail(calls))

\* DataValidator._validate_columns: the declared columns the batch lacks
_validate_columns(d, mappings) ==
    {mappings[k].source_field : k \in 1..Len(mappings)} \ d.columns

(***************************************************************************)
(* Dataset-level validation                                                *)
(***************************************************************************)
\* the tuple df.duplicated(subset=fields) compares
KeyTuple(row, fields) == [k \in 1..Len(fields) |-> row[fields[k]]]

\* Duplicates with keep='first': the first record of a group is not marked
Duplicates_keep_first(d, fields) ==
    {idx \in Index(d) :
        \E other \in Index(d) :
            other < idx /\ KeyTuple(RowAt(d, other), fields) = KeyTuple(RowAt(d, idx), fields)}

\* df[df.duplicated(subset=fields, keep=False)].index
Duplicates(d, fields) ==
    {idx \in Index(d) :
        \E other \in Index(d) :
            other # idx /\ KeyTuple(RowAt(d, other), fields) = KeyTuple(RowAt(d, idx), fields)}

\* Demote without the removal from valid_rows
Demote_keep_valid(st, idx, fields) ==
    IF idx \notin Range(st.invalid_rows)
    THEN [invalid_rows |-> Append(st.invalid_rows, idx),
          valid_rows |-> st.valid_rows,
          errors |-> Append(st.errors,
                        ValidationError(idx, Join(fields), Text(<<"m", "u", "l", "t", "i", "p", "l", "e">>),
                                        "DUPLICATE"))]
    ELSE st

\* Demote with the error appended outside the membership test
Demote_always_error(st, idx, fields) ==
    [invalid_rows |-> IF idx \notin Range(st.invalid_rows)
                      THEN Append(st.invalid_rows, idx) ELSE st.invalid_rows,
     valid_rows |-> IF idx \in Range(st.valid_rows)
                    THEN Remove(st.valid_rows, idx) ELSE st.valid_rows,
     errors |-> Append(st.errors,
                   ValidationError(idx, Join(fields), Text(<<"m", "u", "l", "t", "i", "p", "l", "e">>),
                                   "DUPLICATE"))]

\* Demote without the DUPLICATE error
Demote_no_error(st, idx, fields) ==
    IF idx \notin Range(st.invalid_rows)
    THEN [invalid_rows |-> Append(st.invalid_rows, idx),
          valid_rows |-> IF idx \in Range(st.valid_rows)
                         THEN Remove(st.valid_rows, idx) ELSE st.valid_rows,
          errors |-> st.errors]
    ELSE st

\* body of the loop over duplicates.index
Demote(st, idx, fields) ==
    IF idx \notin Range(st.invalid_rows)
    THEN [invalid_rows |-> Append(st.invalid_rows, idx),
          valid_rows |-> IF idx \in Range(st.valid_rows)
                         THEN Remove(st.valid_rows, idx) ELSE st.valid_rows,
          errors |-> Append(st.errors,
                        ValidationError(idx, Join(fields), Text(<<"m", "u", "l", "t", "i", "p", "l", "e">>),
                                        "DUPLICATE"))]
    ELSE st

\* the loop over duplicates.index, in index order from idx on
RECURSIVE DemoteFrom(_, _, _, _)
DemoteFrom(st, d, fields, idx) ==
    IF idx >= Len(d.rows) THEN st
    ELSE DemoteFrom(IF idx \in Duplicates(d, fields) THEN Demote(st, idx, fields) ELSE st,
                    d, fields, idx + 1)

\* DataValidator._run_global_validations over [errors, valid_rows, invalid_rows];
\* rule.fields is rule['fields'].split(',')
RECURSIVE _run_global_validations(_, _, _)
_run_global_validations(st, d, rules) ==
    IF rules = <<>> THEN st
    ELSE _run_global_validations(
            IF Head(rules).rule_type = "duplicate_check"
            THEN DemoteFrom(st, d, Head(rules).fields, 0) ELSE st,
            d, Tail(rules))

\* df.loc[rows]: the records with the listed indices, in list order
Loc(d, rows) == [k \in 1..Len(rows) |-> RowAt(d, rows[k])]

(***************************************************************************)
(* Inputs: configurations and batches                                      *)
(***************************************************************************)
S_2024 == <<"2", "0", "2", "4">>
S_LINE001 == <<"L", "I", "N", "E", "0", "0", "1">>
S_BADLINE == <<"B", "A", "D", "L", "I", "N", "E">>

\* ^LINE\d{3}$
LinePattern ==
    <<AtStart, Lit("L"), Lit("I"), Lit("N"), Lit("E"), AnyDigit, AnyDigit, AnyDigit, AtEnd>>

\* a Validation element of the configuration: its rule attribute and its
\* other attributes, all of them text
Validation(rule_attr, attrib) == [rule |-> rule_attr, attrib |-> attrib]

\* a Field element of the configuration
Field(source, required, validations) ==
    [source |-> source, required |-> required, validations |-> validations]

\* str.lower() on the spellings of the required attribute
Lower(text) == IF text \in {"true", "True", "TRUE"} THEN "true" ELSE "false"

\* get_field_mappings, the parameters of one Validation element: min and max
\* of a range rule become numbers, int() raising ValueError on other text
ParseParams(rule_type, attrib) ==
    LET numeric == IF rule_type = "range" THEN DOMAIN attrib \cap {"min", "max"} ELSE {}
    IN  [ok |-> \A key \in numeric : PyFloat(attrib[key]).ok,
         params |-> [key \in DOMAIN attrib |->
                        IF key \in numeric /\ PyFloat(attrib[key]).ok
                        THEN Num(PyFloat(attrib[key]).n) ELSE attrib[key]]]

\* get_field_mappings, the loop over the Validation elements of a field: every
\* rule attribute is taken as the rule_type, whatever it is
ParseValidations(elems) ==
    [ok |-> \A k \in 1..Len(elems) : ParseParams(elems[k].rule, elems[k].attrib).ok,
     validations |-> [k \in 1..Len(elems) |->
                        ValidationRule(elems[k].rule,
                                       ParseParams(elems[k].rule, elems[k].attrib).params)]]

\* ConfigParser.get_field_mappings: ok is FALSE when a conversion raised
get_field_mappings(fields) ==
    [ok |-> \A k \in 1..Len(fields) : ParseValidations(fields[k].validations).ok,
     mappings |-> [k \in 1..Len(fields) |->
                     FieldMapping(fields[k].source, Lower(fields[k].required) = "true",
                                  ParseValidations(fields[k].validations).validations)]]

TimestampRules ==
    <<Validation("not_null", NoParams),
      Validation("date_range", [min |-> Text(<<"2", "0", "2", "0">>),
                                max |-> Text(<<"2", "0", "3", "0">>)])>>

LineRules ==
    <<Validation("not_null", NoParams),
      Validation("regex", [pattern |-> LinePattern]),
      Validation("lookup", [table |-> "ProductionLines", column |-> "LineID"])>>

\* the rules of line_id with a rule kind the validator does not know
LineRulesWithChecksum ==
    <<Validation("not_null", NoParams),
      Validation("checksum", NoParams),
      Validation("regex", [pattern |-> LinePattern]),
      Validation("lookup", [table |-> "ProductionLines", column |-> "LineID"])>>

\* the FieldMappings sections of the configuration files
FieldConfigs ==
    { <<Field("timestamp", required, TimestampRules), Field("line_id", "true", rules)>> :
        required \in {"true", "True", "false"}, rules \in {LineRules, LineRulesWithChecksum} }

DuplicateCheck(fields) == [rule_type |-> "duplicate_check", fields |-> fields]

GlobalRuleSets ==
    { <<>>,
      <<DuplicateCheck(<<"timestamp", "line_id">>)>>,
      <<[rule_type |-> "completeness_check", fields |-> <<>>],
        DuplicateCheck(<<"timestamp">>), DuplicateCheck(<<"line_id">>)>> }

\* the configurations a DataValidator is constructed from
FieldMappingSets ==
    { get_field_mappings(fields).mappings :
        fields \in {config \in FieldConfigs : get_field_mappings(config).ok} }

ColumnValues(c) ==
    IF c = "timestamp" THEN {Null, Text(<<>>), Text(S_2024)}
    ELSE {Text(S_LINE001), Text(<<" ">>)}

ColumnSets == {{"timestamp", "line_id"}, {"line_id"}}

RowsOver(cols) == {row \in [cols -> UNION {ColumnValues(c) : c \in cols}] :
                      \A c \in cols : row[c] \in ColumnValues(c)}

Batches ==
    UNION { {[columns |-> cols, rows |-> rows] :
                rows \in UNION {[1..n -> RowsOver(cols)] : n \in 0..MaxRows}} :
            cols \in ColumnSets }

NoBatch == [columns |-> {}, rows |-> <<>>]

(***************************************************************************)
(* DataValidator: construction and validate_dataframe                      *)
(***************************************************************************)
\* the validator used on its own, outside the pipeline
NoEtl ==
    /\ dry_run = FALSE
    /\ files = <<>>
    /\ etl_pc = "none"
    /\ db_rows = 0
    /\ db_errors = 0
    /\ batch_size = 1
    /\ success_count = 0

\* DataValidator.__init__
Init ==
    /\ field_mappings \in FieldMappingSets
    /\ global_validations \in GlobalRuleSets
    /\ errors = <<>>
    /\ valid_rows = <<>>
    /\ invalid_rows = <<>>
    /\ _lookup_cache = {}
    /\ df = NoBatch
    /\ pc = "idle"
    /\ i = 0
    /\ row_errors = <<>>
    /\ applied = <<>>
    /\ outcome = "none"
    /\ valid_df = <<>>
    /\ invalid_df = <<>>
    /\ value = Null
    /\ rule = ValidationRule("not_null", NoParams)
    /\ result = <<>>
    /\ history = {}
    /\ NoEtl

\* validate_dataframe with the column check ahead of the reset of the lists
validate_dataframe_check_first(d) ==
    /\ pc = "idle"
    /\ df' = d
    /\ valid_df' = <<>>
    /\ invalid_df' = <<>>
    /\ row_errors' = <<>>
    /\ applied' = <<>>
    /\ IF _validate_columns(d, field_mappings) # {}
       THEN /\ pc' = "idle" /\ outcome' = "ValueError" /\ i' = 0
            /\ history' = history \cup {"ValueError"}
            /\ UNCHANGED <<errors, valid_rows, invalid_rows>>
       ELSE /\ pc' = "rows" /\ outcome' = "running" /\ i' = 1
            /\ errors' = <<>> /\ valid_rows' = <<>> /\ invalid_rows' = <<>>
            /\ UNCHANGED history
    /\ UNCHANGED <<field_mappings, global_validations, _lookup_cache, value, rule, result,
                   etlvars>>

\* validate_dataframe, entry: reset the lists, then _validate_columns, which
\* raises ValueError when a declared column is missing
validate_dataframe_keep_errors(d) ==
    /\ pc = "idle"
    /\ df' = d
    /\ errors' = errors
    /\ valid_rows' = <<>>
    /\ invalid_rows' = <<>>
    /\ valid_df' = <<>>
    /\ invalid_df' = <<>>
    /\ row_errors' = <<>>
    /\ applied' = <<>>
    /\ IF _validate_columns(d, field_mappings) # {}
       THEN /\ pc' = "idle" /\ outcome' = "ValueError" /\ i' = 0
            /\ history' = history \cup {"ValueError"}
       ELSE /\ pc' = "rows" /\ outcome' = "running" /\ i' = 1
            /\ UNCHANGED history
    /\ UNCHANGED <<field_mappings, global_validations, _lookup_cache, value, rule, result,
                   etlvars>>

validate_dataframe(d) ==
    /\ pc = "idle"
    /\ df' = d
    /\ errors' = <<>>
    /\ valid_rows' = <<>>
    /\ invalid_rows' = <<>>
    /\ valid_df' = <<>>
    /\ invalid_df' = <<>>
    /\ row_errors' = <<>>
    /\ applied' = <<>>
    /\ IF _validate_columns(d, field_mappings) # {}
       THEN /\ pc' = "idle" /\ outcome' = "ValueError" /\ i' = 0
            /\ history' = history \cup {"ValueError"}
       ELSE /\ pc' = "rows" /\ outcome' = "running" /\ i' = 1
            /\ UNCHANGED history
    /\ UNCHANGED <<field_mappings, global_validations, _lookup_cache, value, rule, result,
                   etlvars>>

\* one iteration of the loop over df.iterrows()
ValidateRowStep ==
    /\ pc = "rows"
    /\ i <= Len(df.rows)
    /\ LET idx == i - 1
           errs == _validate_row(idx, df.rows[i], field_mappings)
           calls == RowApplied(df.rows[i], field_mappings)
       IN  /\ row_errors' = errs
           /\ applied' = calls
           /\ _lookup_cache' = CacheAfterAll(_lookup_cache, calls)
           /\ IF errs # <<>>
              THEN /\ invalid_rows' = Append(invalid_rows, idx)
                   /\ errors' = errors \o errs
                   /\ UNCHANGED valid_rows
              ELSE /\ valid_rows' = Append(valid_rows, idx)
                   /\ UNCHANGED <<invalid_rows, errors>>
    /\ i' = i + 1
    /\ UNCHANGED <<field_mappings, global_validations, df, pc, outcome, valid_df,
                   invalid_df, value, rule, result, history, etlvars>>

\* the call of _run_global_validations after the row loop
RunGlobalStep ==
    /\ pc = "rows"
    /\ i > Len(df.rows)
    /\ LET st == _run_global_validations(
                    [errors |-> errors, valid_rows |-> valid_rows,
                     invalid_rows |-> invalid_rows], df, global_validations)
       IN  /\ errors' = st.errors
           /\ valid_rows' = st.valid_rows
           /\ invalid_rows' = st.invalid_rows
    /\ pc' = "split"
    /\ UNCHANGED <<field_mappings, global_validations, _lookup_cache, df, i, row_errors,
                   applied, outcome, valid_df, invalid_df, value, rule, result, history,
                   etlvars>>

\* _print_summary divides by total: ZeroDivisionError on an empty batch
_print_summary(total) == IF total = 0 THEN "ZeroDivisionError" ELSE "returned"

\* validate_dataframe, exit: split the batch, print the summary, return
SplitStep ==
    /\ pc = "split"
    /\ LET end == _print_summary(Len(df.rows))
       IN  /\ outcome' = end
           /\ valid_df' = IF end = "returned" THEN Loc(df, valid_rows) ELSE <<>>
           /\ invalid_df' = IF end = "returned" THEN Loc(df, invalid_rows) ELSE <<>>
           /\ history' = history \cup {end}
    /\ pc' = "idle"
    /\ UNCHANGED <<field_mappings, global_validations, errors, valid_rows, invalid_rows,
                   _lookup_cache, df, i, row_errors, applied, value, rule, result, etlvars>>

Next ==
    \/ \E d \in Batches : validate_dataframe(d)
    \/ ValidateRowStep
    \/ RunGlobalStep
    \/ SplitStep

Spec == Init /\ [][Next]_vars

(***************************************************************************)
(* The rule evaluator on its own: _apply_rule called with one non-null     *)
(* value and one rule, as _validate_row calls it                           *)
(***************************************************************************)
S_abc == <<"a", "b", "c">>
S_LINE001X == <<"L", "I", "N", "E", "0", "0", "1", "X">>
S_PROD_A1 == <<"P", "R", "O", "D", "-", "A", "1">>
S_PROD_Z9 == <<"P", "R", "O", "D", "-", "Z", "9">>

\* ^LINE\d{3}
LinePrefixPattern ==
    <<AtStart, Lit("L"), Lit("I"), Lit("N"), Lit("E"), AnyDigit, AnyDigit, AnyDigit>>

RuleValues ==
    {Text(<<>>), Text(<<" ">>), Text(S_abc), Text(<<"1", "5", "0">>), Text(<<"3", "0", "0">>),
     Text(<<"-", "5">>), Text(<<" ", "4", "2", " ">>), Text(S_2024), Text(<<"2", "0", "1", "9">>),
     Text(<<"2", "0", "3", "1">>), Text(S_LINE001), Text(S_LINE001X), Text(S_BADLINE),
     Text(S_PROD_A1), Text(S_PROD_Z9)}
    \cup {Num(k) : k \in {-1, 0, 150, 250, 251, 300}}
    \cup {Ts(y) : y \in {2019, 2020, 2024, 2030, 2031}}

\* a dict with the listed keys taken from full
Pick(full, keys) == [key \in keys |-> full[key]]

RangeParams ==
    {ParseParams("range", Pick([min |-> Text(<<"0">>), max |-> Text(<<"2", "5", "0">>)], keys)).params :
        keys \in SUBSET {"min", "max"}}

RegexParams ==
    {NoParams, [pattern |-> <<>>], [pattern |-> LinePattern], [pattern |-> LinePrefixPattern]}

DateRangeParams ==
    UNION {{Pick([min |-> lo, max |-> hi], keys) : keys \in SUBSET {"min", "max"}} :
           lo \in {Text(<<"2", "0", "2", "0">>), Text(<<>>), Text(S_abc)},
           hi \in {Text(<<"2", "0", "3", "0">>), Text(S_abc)}}

LookupParams ==
    {Pick([table |-> "Products", column |-> "ProductCode"], keys) : keys \in SUBSET {"table", "column"}}
    \cup {[table |-> "Operators", column |-> "OperatorID"]}

Rules ==
    {ValidationRule("not_null", NoParams), ValidationRule("completeness", NoParams)}
    \cup {ValidationRule("range", p) : p \in RangeParams}
    \cup {ValidationRule("regex", p) : p \in RegexParams}
    \cup {ValidationRule("date_range", p) : p \in DateRangeParams}
    \cup {ValidationRule("lookup", p) : p \in LookupParams}

RuleInit ==
    /\ field_mappings = <<>>
    /\ global_validations = <<>>
    /\ errors = <<>>
    /\ valid_rows = <<>>
    /\ invalid_rows = <<>>
    /\ _lookup_cache = {}
    /\ df = NoBatch
    /\ pc = "apply"
    /\ i = 0
    /\ row_errors = <<>>
    /\ applied = <<>>
    /\ outcome = "none"
    /\ valid_df = <<>>
    /\ invalid_df = <<>>
    /\ value \in RuleValues
    /\ rule \in Rules
    /\ result = <<>>
    /\ history = {}
    /\ NoEtl

\* error = self._apply_rule(idx, field_name, value, rule)
ApplyRuleCall ==
    /\ pc = "apply"
    /\ result' = _apply_rule(0, "field", value, rule)
    /\ _lookup_cache' = CacheAfter(_lookup_cache, rule)
    /\ pc' = "idle"
    /\ UNCHANGED <<field_mappings, global_validations, errors, valid_rows, invalid_rows,
                   df, i, row_errors, applied, outcome, valid_df, invalid_df, value, rule,
                   history, etlvars>>

RuleNext == ApplyRuleCall

RuleSpec == RuleInit /\ [][RuleNext]_vars

(***************************************************************************)
(* main and the ETL pipeline (src/src/main.py, src/src/etl_processor.py):  *)
(* every file is validated by a validator of its own, then its valid rows  *)
(* are loaded and its errors logged.                                       *)
(***************************************************************************)
\* a file the tool is pointed at; contents are what pd.read_csv gives for it
File(exists, data) == [exists |-> exists, data |-> data]

\* pd.read_csv turns an empty cell into NaN, so no cell reads as the empty string
CsvBatches ==
    {d \in Batches : \A k \in 1..Len(d.rows) : \A c \in d.columns :
                        d.rows[k][c] # Text(<<>>)}

Files == {File(TRUE, d) : d \in CsvBatches} \cup {File(FALSE, NoBatch)}

BatchSizes == {1, 1000}

\* main: the arguments are parsed and the files to process are found
MainInit ==
    /\ field_mappings \in FieldMappingSets
    /\ global_validations \in GlobalRuleSets
    /\ errors = <<>>
    /\ valid_rows = <<>>
    /\ invalid_rows = <<>>
    /\ _lookup_cache = {}
    /\ df = NoBatch
    /\ pc = "idle"
    /\ i = 0
    /\ row_errors = <<>>
    /\ applied = <<>>
    /\ outcome = "none"
    /\ valid_df = <<>>
    /\ invalid_df = <<>>
    /\ value = Null
    /\ rule = ValidationRule("not_null", NoParams)
    /\ result = <<>>
    /\ history = {}
    /\ dry_run \in BOOLEAN
    /\ files \in UNION {[1..n -> Files] : n \in 0..MaxFiles}
    /\ etl_pc = "main"
    /\ db_rows = 0
    /\ db_errors = 0
    /\ batch_size \in BatchSizes
    /\ success_count = 0

\* process_single_file returns: the loop of process_batch goes to the next file
Return(ok) ==
    /\ files' = Tail(files)
    /\ success_count' = IF ok THEN success_count + 1 ELSE success_count
    /\ etl_pc' = "main"

\* process_single_file up to the construction of the file's validator in run_etl_pipeline
process_single_file ==
    /\ etl_pc = "main"
    /\ files # <<>>
    /\ IF ~Head(files).exists
       THEN /\ Return(FALSE)
            /\ UNCHANGED <<errors, valid_rows, invalid_rows, _lookup_cache, df, pc, i,
                           row_errors, applied, outcome, valid_df, invalid_df, history>>
       ELSE /\ etl_pc' = "validate"
            /\ errors' = <<>>
            /\ valid_rows' = <<>>
            /\ invalid_rows' = <<>>
            /\ _lookup_cache' = {}
            /\ df' = NoBatch
            /\ pc' = "idle"
            /\ i' = 0
            /\ row_errors' = <<>>
            /\ applied' = <<>>
            /\ outcome' = "none"
            /\ valid_df' = <<>>
            /\ invalid_df' = <<>>
            /\ history' = {}
            /\ UNCHANGED <<files, success_count>>
    /\ UNCHANGED <<field_mappings, global_validations, value, rule, result, dry_run,
                   db_rows, db_errors, batch_size>>

\* run_etl_pipeline step 1: the file is read and handed to validate_dataframe
PipelineValidate ==
    /\ etl_pc = "validate"
    /\ outcome = "none"
    /\ validate_dataframe(Head(files).data)

\* validate_dataframe raised: run_etl_pipeline ends and process_single_file returns False
PipelineRaised ==
    /\ etl_pc = "validate"
    /\ pc = "idle"
    /\ outcome \in {"ValueError", "ZeroDivisionError"}
    /\ Return(FALSE)
    /\ UNCHANGED <<field_mappings, global_validations, errors, valid_rows, invalid_rows,
                   _lookup_cache, df, pc, i, row_errors, applied, outcome, valid_df,
                   invalid_df, value, rule, result, history, dry_run, db_rows, db_errors,
                   batch_size>>

\* run_etl_pipeline step 2: ETLProcessor.connect succeeds, or fails and the pipeline
\* returns without raising
connect ==
    /\ etl_pc = "validate"
    /\ pc = "idle"
    /\ outcome = "returned"
    /\ \E connected \in BOOLEAN :
          IF connected
          THEN etl_pc' = "load" /\ UNCHANGED <<files, success_count>>
          ELSE Return(TRUE)
    /\ UNCHANGED <<field_mappings, global_validations, errors, valid_rows, invalid_rows,
                   _lookup_cache, df, pc, i, row_errors, applied, outcome, valid_df,
                   invalid_df, value, rule, result, history, dry_run, db_rows, db_errors,
                   batch_size>>

\* rows committed when the insert of row k raises: those of the full batches before it
Committed(k, size) == ((k - 1) \div size) * size

\* ETLProcessor.load_valid_data: the insert of row raises_at raises (0: none does)
load_valid_data ==
    /\ etl_pc = "load"
    /\ IF valid_df = <<>>
       THEN etl_pc' = "log" /\ UNCHANGED <<db_rows, files, success_count>>
       ELSE \E raises_at \in 0..Len(valid_df) :
               IF raises_at = 0
               THEN /\ db_rows' = db_rows + Len(valid_df)
                    /\ etl_pc' = "log"
                    /\ UNCHANGED <<files, success_count>>
               ELSE /\ db_rows' = db_rows + Committed(raises_at, batch_size)
                    /\ Return(FALSE)
    /\ UNCHANGED <<field_mappings, global_validations, errors, valid_rows, invalid_rows,
                   _lookup_cache, df, pc, i, row_errors, applied, outcome, valid_df,
                   invalid_df, value, rule, result, history, dry_run, db_errors,
                   batch_size>>

\* ETLProcessor.log_errors: all errors are committed together, or none
log_errors ==
    /\ etl_pc = "log"
    /\ IF errors = <<>>
       THEN etl_pc' = "archive" /\ UNCHANGED <<db_errors, files, success_count>>
       ELSE \E raises \in BOOLEAN :
               IF raises
               THEN Return(FALSE) /\ UNCHANGED db_errors
               ELSE /\ db_errors' = db_errors + Len(errors)
                    /\ etl_pc' = "archive"
                    /\ UNCHANGED <<files, success_count>>
    /\ UNCHANGED <<field_mappings, global_validations, errors, valid_rows, invalid_rows,
                   _lookup_cache, df, pc, i, row_errors, applied, outcome, valid_df,
                   invalid_df, value, rule, result, history, dry_run, db_rows,
                   batch_size>>

\* ETLProcessor.archive_file never raises; the pipeline ends and process_single_file
\* returns True
archive_file ==
    /\ etl_pc = "archive"
    /\ Return(TRUE)
    /\ UNCHANGED <<field_mappings, global_validations, errors, valid_rows, invalid_rows,
                   _lookup_cache, df, pc, i, row_errors, applied, outcome, valid_df,
                   invalid_df, value, rule, result, history, dry_run, db_rows, db_errors,
                   batch_size>>

MainNext ==
    \/ process_single_file
    \/ PipelineValidate
    \/ ValidateRowStep
    \/ RunGlobalStep
    \/ SplitStep
    \/ PipelineRaised
    \/ connect
    \/ load_valid_data
    \/ log_errors
    \/ archive_file

MainSpec == MainInit /\ [][MainNext]_vars

(***************************************************************************)
(* Properties                                                              *)
(***************************************************************************)
NoRepeat(seq) == \A j, k \in 1..Len(seq) : seq[j] = seq[k] => j = k

PartitionOf(st, d) ==
    /\ Range(st.valid_rows) \cap Range(st.invalid_rows) = {}
    /\ NoRepeat(st.valid_rows)
    /\ NoRepeat(st.invalid_rows)
    /\ Range(st.valid_rows) \cup Range(st.invalid_rows) = Index(d)

Lists == [errors |-> errors, valid_rows |-> valid_rows, invalid_rows |-> invalid_rows]

Returned == pc = "idle" /\ outcome = "returned"
AfterGlobal == pc = "split" \/ Returned

HasError(errs, idx, error_type) ==
    \E k \in 1..Len(errs) : errs[k].row_index = idx /\ errs[k].error_type = error_type

DuplicateRules ==
    {global_validations[k] : k \in {j \in 1..Len(global_validations) :
                                        global_validations[j].rule_type = "duplicate_check"}}

\* idx shares its key tuple under fields with another record of the batch
SharesKey(d, idx, fields) ==
    \E other \in Index(d) :
        other # idx /\ \A f \in Range(fields) : RowAt(d, other)[f] = RowAt(d, idx)[f]

\* C1: when validate_dataframe returns, valid_rows and invalid_rows are
\* disjoint, hold no index twice and together hold exactly the record indices
\* of the batch; the same holds after the demotions of every dataset rule.
C1_Partition ==
    /\ AfterGlobal => PartitionOf(Lists, df)
    /\ (pc = "rows" /\ i > Len(df.rows)) =>
          \A k \in 0..Len(global_validations) :
              PartitionOf(_run_global_validations(Lists, df, SubSeq(global_validations, 1, k)), df)

C1_Witness ==
    /\ Returned
    /\ Len(df.rows) = 2
    /\ HasError(errors, 0, "DUPLICATE")
    /\ invalid_rows = <<0, 1>>

\* C2: dataset-level validation never moves an index from the invalid set to
\* the valid set, and running it again on the lists it produced changes
\* neither valid_rows, invalid_rows nor errors.
C2_MonotoneIdempotent ==
    [][(pc = "rows" /\ pc' = "split") =>
          /\ Range(invalid_rows) \subseteq Range(invalid_rows')
          /\ Range(valid_rows') \subseteq Range(valid_rows)
          /\ _run_global_validations(
                [errors |-> errors', valid_rows |-> valid_rows',
                 invalid_rows |-> invalid_rows'], df', global_validations')
             = [errors |-> errors', valid_rows |-> valid_rows',
                invalid_rows |-> invalid_rows']]_vars

C2_Witness ==
    /\ pc = "split"
    /\ \E k \in 1..Len(errors) : errors[k].error_type = "DUPLICATE"
    /\ \E k \in 1..Len(errors) : errors[k].error_type # "DUPLICATE"

\* C3: after validate_dataframe a record is valid exactly when row validation
\* gave no error for it and it shares its key tuple with no other record under
\* any duplicate_check rule.
C3_ValidIff ==
    AfterGlobal =>
        \A idx \in Index(df) :
            idx \in Range(valid_rows) <=>
                /\ _validate_row(idx, RowAt(df, idx), field_mappings) = <<>>
                /\ \A r \in DuplicateRules : ~SharesKey(df, idx, r.fields)

C3_Witness ==
    /\ Returned
    /\ Len(df.rows) = 2
    /\ \A idx \in Index(df) : _validate_row(idx, RowAt(df, idx), field_mappings) = <<>>
    /\ valid_rows = <<>>
    /\ Range(invalid_rows) = {0, 1}

\* C4: for each duplicate_check rule, every record in a group of size >= 2
\* under the rule's fields has a DUPLICATE error naming those fields, whether
\* or not it was already invalid.
C4_DuplicateErrorForEach ==
    AfterGlobal =>
        \A r \in DuplicateRules : \A idx \in Index(df) :
            SharesKey(df, idx, r.fields) =>
                \E k \in 1..Len(errors) :
                    /\ errors[k].row_index = idx
                    /\ errors[k].error_type = "DUPLICATE"
                    /\ errors[k].field_name = Join(r.fields)

\* the record the last iteration of the row loop validated
RowDone == i >= 2
LastRow == df.rows[i - 1]
ErrorsFor(errs, field) == {k \in 1..Len(errs) : errs[k].field_name = field}
AppliedFor(calls, field) == {k \in 1..Len(calls) : calls[k][1] = field}

\* C5: in row validation a null value on a required field gives exactly one
\* error for the field, REQUIRED_FIELD_MISSING, a null value on an optional
\* field gives none, and in both cases no rule of the field is evaluated.
C5_NullField ==
    RowDone =>
        \A m \in Range(field_mappings) :
            IsNa(LastRow[m.source_field]) =>
                /\ AppliedFor(applied, m.source_field) = {}
                /\ IF m.required
                   THEN /\ Cardinality(ErrorsFor(row_errors, m.source_field)) = 1
                        /\ \A k \in ErrorsFor(row_errors, m.source_field) :
                              row_errors[k].error_type = "REQUIRED_FIELD_MISSING"
                   ELSE ErrorsFor(row_errors, m.source_field) = {}

C5_Witness ==
    /\ RowDone
    /\ IsNa(LastRow["timestamp"])
    /\ field_mappings[1].required
    /\ HasError(row_errors, i - 2, "REQUIRED_FIELD_MISSING")

\* C6: a record whose required field is the empty string '' is placed in the
\* invalid set and a REQUIRED_FIELD_MISSING error is recorded for it.
C6_EmptyStringRequired ==
    RowDone =>
        \A m \in Range(field_mappings) :
            (m.required /\ LastRow[m.source_field] = Text(<<>>)) =>
                /\ (i - 2) \in Range(invalid_rows)
                /\ HasError(errors, i - 2, "REQUIRED_FIELD_MISSING")

Applied(rule_type) == pc = "idle" /\ rule.rule_type = rule_type
OneError(res, error_type) == Len(res) = 1 /\ res[1].error_type = error_type

\* C7: a range rule on a non-null value gives one NUMERIC error, never RANGE,
\* when the value is not a number; otherwise one RANGE error exactly when a
\* supplied min is above the value or a supplied max is below it, so a value
\* on a bound passes and an absent bound is not checked.
C7_Range ==
    Applied("range") =>
        LET num_val == PyFloat(value)
            p == rule.parameters
        IN  IF ~num_val.ok THEN OneError(result, "NUMERIC")
            ELSE IF \/ ("min" \in DOMAIN p /\ p.min.n > num_val.n)
                    \/ ("max" \in DOMAIN p /\ p.max.n < num_val.n)
                 THEN OneError(result, "RANGE")
            ELSE result = <<>>

C7_Witness ==
    /\ Applied("range")
    /\ DOMAIN rule.parameters = {"min", "max"}
    /\ value = Num(250)
    /\ rule.parameters.max = Num(250)
    /\ result = <<>>

\* the pattern, anchors aside, spells out the first characters of chars, and
\* a pattern closed by $ spells out all of them
IsCharAtom(atom) == atom.k \in {"lit", "digit"}
MatchesPrefix(pattern, chars) ==
    LET core == SelectSeq(pattern, IsCharAtom)
    IN  /\ Len(core) <= Len(chars)
        /\ \A k \in 1..Len(core) :
              IF core[k].k = "digit" THEN chars[k] \in Digits ELSE chars[k] = core[k].c
        /\ (pattern # <<>> /\ pattern[Len(pattern)].k = "end") => Len(core) = Len(chars)

\* C8: a regex rule on a non-null value gives a REGEX error exactly when the
\* pattern does not match at the start of the stringified value (a matching
\* prefix followed by other characters passes); without a pattern parameter it
\* gives no error.
C8_Regex ==
    Applied("regex") =>
        IF "pattern" \in DOMAIN rule.parameters
        THEN IF MatchesPrefix(rule.parameters.pattern, PyStr(value))
             THEN result = <<>>
             ELSE OneError(result, "REGEX")
        ELSE result = <<>>

C8_Witness ==
    /\ Applied("regex")
    /\ rule.parameters = [pattern |-> LinePrefixPattern]
    /\ value = Text(S_LINE001X)
    /\ result = <<>>

\* the instant a str or a native timestamp stands for, if any
CoercesToInstant(v) ==
    \/ v.t = "ts"
    \/ v.t = "str" /\ ToDatetime(v.s).ok /\ ~ToDatetime(v.s).nat
InstantOf(v) == IF v.t = "ts" THEN v.n ELSE ToDatetime(v.s).n

\* C9: a date_range rule on a non-null value gives a DATE_FORMAT error if and
\* only if the value cannot be coerced to a date/time instant; when it can, it
\* gives a DATE_RANGE error exactly when the instant is before a supplied min
\* or after a supplied max.
C9_DateRange ==
    (Applied("date_range") /\ value.t \in {"str", "ts"}
     /\ \A key \in DOMAIN rule.parameters : CoercesToInstant(rule.parameters[key])) =>
        LET p == rule.parameters IN
        IF ~CoercesToInstant(value) THEN OneError(result, "DATE_FORMAT")
        ELSE IF \/ ("min" \in DOMAIN p /\ InstantOf(value) < InstantOf(p.min))
                \/ ("max" \in DOMAIN p /\ InstantOf(value) > InstantOf(p.max))
             THEN OneError(result, "DATE_RANGE")
        ELSE result = <<>>

\* the reference set of a (table, column): the known product codes for
\* ProductCode; any other key resolves to nothing
ReferenceSet(p) ==
    IF "column" \in DOMAIN p /\ p.column = "ProductCode" THEN valid_products ELSE {}

\* C10: a lookup rule with any (table, column) on a non-null value gives a
\* LOOKUP error exactly when the stringified value is not in the reference set
\* of that (table, column); a (table, column) that cannot be resolved gives a
\* LOOKUP error.
C10_Lookup ==
    Applied("lookup") =>
        IF PyStr(value) \in ReferenceSet(rule.parameters)
        THEN result = <<>>
        ELSE OneError(result, "LOOKUP")

\* the error kinds of the record-level tier
ErrorKinds ==
    {"REQUIRED_FIELD_MISSING", "RANGE", "NUMERIC", "REGEX", "DATE_RANGE", "DATE_FORMAT",
     "LOOKUP", "DUPLICATE"}

\* C11: every error in the error list after validate_dataframe has a kind from
\* the closed set ErrorKinds, the error of a failing not_null rule included.
C11_ClosedKinds ==
    AfterGlobal => \A k \in 1..Len(errors) : errors[k].error_type \in ErrorKinds

\* C11 (amended): every error in the error list after validate_dataframe has a
\* kind from ErrorKinds or the kind NOT_NULL, which a failing not_null rule
\* reports.
C11_KindsWithNotNull ==
    AfterGlobal =>
        \A k \in 1..Len(errors) : errors[k].error_type \in ErrorKinds \cup {"NOT_NULL"}

C11_Witness ==
    /\ Returned
    /\ \E k \in 1..Len(errors) :
          /\ errors[k].error_type = "NOT_NULL"
          /\ errors[k].field_value = Text(<<" ">>)

\* C12: when the batch lacks a declared column, validate_dataframe fails with
\* ValueError before any row is validated: nothing is returned, no record is
\* classified and no record-level error is recorded.
C12_MissingColumnFatal ==
    (df # NoBatch /\ _validate_columns(df, field_mappings) # {}) =>
        /\ pc = "idle"
        /\ outcome = "ValueError"
        /\ errors = <<>>
        /\ valid_rows = <<>>
        /\ invalid_rows = <<>>
        /\ row_errors = <<>>
        /\ applied = <<>>
        /\ valid_df = <<>>
        /\ invalid_df = <<>>

C12_Witness ==
    /\ outcome = "ValueError"
    /\ Len(df.rows) = 2
    /\ "timestamp" \notin df.columns
    /\ _lookup_cache # {}

\* the indices of rows in increasing order
RECURSIVE Ascending(_)
Ascending(indices) ==
    IF indices = {} THEN <<>>
    ELSE LET lowest == CHOOSE x \in indices : \A y \in indices : x <= y
         IN  <<lowest>> \o Ascending(indices \ {lowest})

\* C13: the valid output and the invalid output of validate_dataframe each
\* list their records in the original relative order of the batch, also when
\* dataset-level validation demotes records after row validation marked
\* others invalid.
C13_OriginalOrder ==
    Returned =>
        /\ valid_df = Loc(df, Ascending(Range(valid_rows)))
        /\ invalid_df = Loc(df, Ascending(Range(invalid_rows)))

\* the failures of the last validated row: <<field position, rule position>>,
\* rule position 0 standing for the required check
RulePositions(from) ==
    UNION {{<<f, r>> : r \in from..Len(field_mappings[f].validations)} :
           f \in 1..Len(field_mappings)}

RowFailures ==
    {pair \in RulePositions(0) :
        LET m == field_mappings[pair[1]]
            v == LastRow[m.source_field]
        IN  IF pair[2] = 0 THEN m.required /\ IsNa(v)
            ELSE /\ ~IsNa(v)
                 /\ _apply_rule(i - 2, m.source_field, v, m.validations[pair[2]]) # <<>>}

FailureError(pair) ==
    LET m == field_mappings[pair[1]]
        v == LastRow[m.source_field]
    IN  IF pair[2] = 0
        THEN ValidationError(i - 2, m.source_field, v, "REQUIRED_FIELD_MISSING")
        ELSE _apply_rule(i - 2, m.source_field, v, m.validations[pair[2]])[1]

Before(p, q) == p[1] < q[1] \/ (p[1] = q[1] /\ p[2] < q[2])

\* C17: row validation visits the fields in schema order and, for each
\* non-null field, evaluates every rule in declared order and appends one
\* error per failing rule in that order; a failure never hides a later rule of
\* the field or a later field.
C17_AllRulesInOrder ==
    RowDone =>
        /\ Len(row_errors) = Cardinality(RowFailures)
        /\ \E order \in [1..Len(row_errors) -> RowFailures] :
              /\ \A j, k \in 1..Len(row_errors) : j < k => Before(order[j], order[k])
              /\ \A k \in 1..Len(row_errors) : row_errors[k] = FailureError(order[k])
        /\ Len(applied) = Cardinality({pair \in RulePositions(1) :
                                ~IsNa(LastRow[field_mappings[pair[1]].source_field])})

C17_Witness ==
    /\ RowDone
    /\ Len(row_errors) = 3
    /\ row_errors[1].error_type = "REQUIRED_FIELD_MISSING"
    /\ row_errors[2].error_type = "NOT_NULL"
    /\ row_errors[3].error_type = "REGEX"
    /\ Len(applied) = 3

\* C18: after validate_dataframe every error carries the index of a record in
\* the invalid set, none refers to a record in the valid set, and every index
\* in the invalid set has at least one error.
C18_ErrorsMatchInvalid ==
    AfterGlobal =>
        /\ \A k \in 1..Len(errors) :
              /\ errors[k].row_index \in Range(invalid_rows)
              /\ errors[k].row_index \notin Range(valid_rows)
        /\ \A idx \in Range(invalid_rows) : \E k \in 1..Len(errors) : errors[k].row_index = idx

C18_Witness ==
    /\ Returned
    /\ invalid_rows = <<1, 0>>
    /\ HasError(errors, 0, "DUPLICATE")
    /\ ~HasError(errors, 1, "DUPLICATE")

\* C19: validate_dataframe on a batch with zero records and all declared
\* columns returns normally, with empty valid set, invalid set and error list.
C19_EmptyBatchReturns ==
    (pc = "idle" /\ outcome \notin {"none", "ValueError"} /\ Len(df.rows) = 0) =>
        /\ outcome = "returned"
        /\ valid_rows = <<>>
        /\ invalid_rows = <<>>
        /\ errors = <<>>

\* the rule kinds _apply_rule has a branch for
RecognisedKinds == {"not_null", "range", "regex", "date_range", "lookup"}

\* C14: building the schema from a configuration with a rule of an
\* unrecognised kind fails at construction, so no validation run of a
\* constructed DataValidator ever evaluates a rule of an unrecognised kind.
C14_NoUnrecognisedKind ==
    \A k \in 1..Len(applied) : applied[k][2].rule_type \in RecognisedKinds

\* the row loop of validate_dataframe run on a validator whose lists are st, from row k on
RECURSIVE RowLoop(_, _, _)
RowLoop(st, d, k) ==
    IF k > Len(d.rows) THEN st
    ELSE LET errs == _validate_row(k - 1, d.rows[k], field_mappings)
         IN  RowLoop(IF errs # <<>>
                     THEN [st EXCEPT !.invalid_rows = Append(@, k - 1),
                                     !.errors = @ \o errs]
                     ELSE [st EXCEPT !.valid_rows = Append(@, k - 1)],
                     d, k + 1)

EmptyLists == [errors |-> <<>>, valid_rows |-> <<>>, invalid_rows |-> <<>>]

\* what one call on a validator freshly constructed from the same configuration gives
FreshCall(d) ==
    IF _validate_columns(d, field_mappings) # {}
    THEN [outcome |-> "ValueError", lists |-> EmptyLists]
    ELSE [outcome |-> _print_summary(Len(d.rows)),
          lists |-> _run_global_validations(RowLoop(EmptyLists, d, 1), d,
                                            global_validations)]

CallEnded == pc = "idle" /\ outcome # "none"

\* C15: whatever calls came before, a finished call of validate_dataframe ends as
\* the first call of a freshly constructed validator on the same batch ends, with
\* the same valid rows, invalid rows and error list
C15_HistoryIndependent ==
    CallEnded => /\ outcome = FreshCall(df).outcome
                 /\ Lists = FreshCall(df).lists

\* a call with errors has returned on a validator whose earlier call failed on a
\* missing column
C15_Witness ==
    /\ Returned
    /\ "ValueError" \in history
    /\ errors # <<>>

\* C16: in a run started with --dry-run no record is loaded to the database
C16_DryRunLoadsNothing == dry_run => db_rows = 0

====
